---- MODULE Spec2Model ----
(***************************************************************************)
(* Model of the join-request approver bot (src/app.py).                    *)
(*                                                                         *)
(* Five specifications share the variables below:                          *)
(*   Spec         the bot: update dispatch, on_join_request,               *)
(*                button_handler, cmd_approve / cmd_approve_all,           *)
(*                bulk_approve_core with its workers, and the remote       *)
(*                pending lists; durations of sleeps are abstracted (a     *)
(*                sleeping task resumes at any later step);                *)
(*   SpecLive     the bulk runs of Spec alone, over lists that may hold    *)
(*                users whose approval is refused every time, with the     *)
(*                fairness of the event loop;                              *)
(*   SpecButtons  the join requests and button callbacks of Spec alone,    *)
(*                starting with join requests waiting as updates;          *)
(*   SpecExec     one safe_approve call with the durations of its sleeps;  *)
(*   SpecLimiter  one RateLimiter shared by concurrent workers, with a     *)
(*                discrete clock whose tick is the limiter's min_interval. *)
(***************************************************************************)
EXTENDS Integers, Sequences, FiniteSets, TLC

\* ----------------------------------------------------------------- bounds
NUsers == 3
NGroups == 2
page_size == 2
BULK_CONCURRENCY == 2
MaxCap == 2
MaxFaults == 1
MaxJoins == 1
NSenders == 2

\* ------------------------------------------------------ program constants
RetryAfterMax == 8
NetworkMax == 6
RetryAfterDefault == 3
NetworkSleep == 2

Users == 1..NUsers
Groups == 1..NGroups
Workers == 1..BULK_CONCURRENCY
Senders == 1..NSenders
ADMIN_IDS == {1}
None == 0

Failures == {"retry_after", "network", "forbidden", "bad_request", "other"}
Transient == {"retry_after", "network"}

VARIABLES
    \* ---- Spec: the bot
    pending_requests,  \* registry: user id -> chat id of the recorded request, or None
    remote,            \* the platform's pending join requests: chat id -> set of user ids
    stuck,             \* users whose approval the platform refuses every time (it answers
                       \* BadRequest and keeps the request pending)
    joinUpdates,       \* ChatJoinRequest updates not yet handled: set of <<chat, user>>
    joins,             \* join requests made so far (bounded by MaxJoins)
    faults,            \* failure responses of the remote and requests resolved outside the
                       \* bot so far (bounded by MaxFaults)
    btn,               \* the running button_handler: its locals and position
    run,               \* the running bulk_approve_core: its locals and position
    queue,             \* the batch's asyncio.Queue: sequence of user ids and None sentinels
    unfinished,        \* the queue's count of unfinished tasks (put minus task_done)
    counter,           \* counter["ok"] of the batch
    wk,                \* the batch's worker tasks: worker -> [pc, user, retries]
    reply,             \* the message the latest step showed to the admin ("none": no message)
    asked,             \* the chat and user of the admin's approve callback that the latest
                       \* step handled, when their join request was recorded and no callback
                       \* for them was handled since; else NoOne (observation)
    sender,            \* who sent the callback or command the latest step handled: "admin",
                       \* "other" (not in ADMIN_IDS) or "none" (observation)
    hist,              \* history of the current bulk run (observations, never read by the code)
    reg,               \* history of the registry per user (observations, never read by the code)
    \* ---- SpecExec: one safe_approve call
    ex,
    \* ---- SpecLimiter: RateLimiter shared by workers
    lim

vars == <<pending_requests, remote, stuck, joinUpdates, joins, faults, btn, run, queue,
          unfinished, counter, wk, reply, asked, sender, hist, reg, ex, lim>>

botVars == <<pending_requests, remote, stuck, joinUpdates, joins, faults, btn, run, queue,
             unfinished, counter, wk, reply, asked, sender, hist, reg>>

\* --------------------------------------------------------------- helpers
Min(a, b) == IF a < b THEN a ELSE b
Max(a, b) == IF a > b THEN a ELSE b

RECURSIVE SetToSeq(_)
\* A page lists its entries in the remote's order; the model orders them by id.
SetToSeq(S) ==
    IF S = {} THEN <<>>
    ELSE LET m == CHOOSE x \in S : \A y \in S : x <= y
         IN <<m>> \o SetToSeq(S \ {m})

RECURSIVE Repeat(_, _)
Repeat(x, n) == IF n = 0 THEN <<>> ELSE <<x>> \o Repeat(x, n - 1)

\* ------------------------------------------------------- safe_approve core
\* (variant: a fixed one-second backoff that ignores retry_after)
SleepShort(kind, t) == 1

\* Seconds slept after a transient failure: RetryAfter sleeps
\* int(retry_after) or 3, a network error or timeout sleeps 2.
SleepFor(kind, t) ==
    IF kind = "retry_after"
    THEN (IF t = 0 THEN RetryAfterDefault ELSE t)
    ELSE NetworkSleep

\* (variant: the bound compared with >= instead of >)
GiveUpEarly(kind, retries) ==
    IF kind = "retry_after" THEN retries >= RetryAfterMax ELSE retries >= NetworkMax

\* After the sleep the shared retries counter is incremented and compared
\* with the bound of the failure that was caught.
GiveUp(kind, retries) ==
    IF kind = "retry_after" THEN retries > RetryAfterMax ELSE retries > NetworkMax

\* (variant: every failure is retried)
ClassifyRetryAll(outcome) == IF outcome = "ok" THEN "true" ELSE "sleep"

\* What safe_approve does with the outcome of one remote call:
\* "true" / "false" (returned at once) or "sleep" (sleep, then count and retry).
Classify(outcome) ==
    IF outcome = "ok" THEN "true"
    ELSE IF outcome \in Transient THEN "sleep"
    ELSE "false"

\* ==================================================================== Spec
\* ---- the remote platform
\* Outcomes of approve_chat_join_request(chat, user): success needs the
\* request to be pending still and the user not to be one the platform
\* refuses (else the platform answers BadRequest); any failure may be
\* injected while the fault budget lasts.
ApproveOutcomes(g, u) ==
    (IF u \in remote[g] /\ u \notin stuck THEN {"ok"} ELSE {"bad_request"})
    \cup (IF faults < MaxFaults THEN Failures ELSE {})

FaultCost(g, u, outcome) ==
    IF outcome = "ok" \/ (outcome = "bad_request" /\ (u \notin remote[g] \/ u \in stuck))
    THEN 0 ELSE 1

Resolve(g, u) == [remote EXCEPT ![g] = @ \ {u}]

\* ---- observations
HistStart ==
    [enq |-> 0, calls |-> 0, oks |-> 0, fails |-> 0, fetches |-> <<>>,
     batches |-> 0, forb |-> FALSE, afterForb |-> FALSE, m0 |-> -1,
     clean |-> TRUE, reported |-> -1, approved |-> {},
     page |-> {}, starts |-> [u \in Users |-> 0]]

\* Per user, since its latest recorded join request: callbacks that obtained
\* the entry (taken), that went on to a remote approve or decline (mut), that
\* obtained the entry and made no remote call (dropped), and whether a
\* callback found the entry gone after it was taken (late), and whether the
\* callback that obtained the entry named another chat than the entry (wrong).
\* Per user, over the whole run of the bot: the chats for which buttons were
\* sent to the admins (sent), and those of them for which no admin's callback
\* has been handled since the join request was recorded (open).
RegStart ==
    [taken |-> 0, mut |-> 0, dropped |-> 0, late |-> FALSE, wrong |-> FALSE,
     sent |-> {}, open |-> {}]

NoOne == [chat |-> None, user |-> None]

\* Observation of an admin's callback naming chat g and user u being handled.
Handled(r, u, g) == [r EXCEPT ![u].open = @ \ {g}]

Sat(n) == Min(n + 1, 2)

\* The observations of a run stop growing at HistCap, which no run reaches
\* unless it goes round its loop without end.
HistCap == 2 * (NUsers + MaxJoins + MaxFaults) + 2
Cnt(n, k) == Min(n + k, HistCap)
Rec(seq, x) == IF Len(seq) < HistCap THEN Append(seq, x) ELSE seq

\* A change of the remote list of the running bulk run's chat that the run
\* did not make itself.
Disturb(g) ==
    IF run.pc # "idle" /\ run.chat = g THEN [hist EXCEPT !.clean = FALSE] ELSE hist

\* ---- tasks
BtnIdle == [pc |-> "idle", chat |-> None, user |-> None, retries |-> 0, kind |-> "none"]
RunIdle == [pc |-> "idle", chat |-> None, limit |-> None, approved_total |-> 0]
WkOff == [pc |-> "off", user |-> None, retries |-> 0, kind |-> "none"]

BotQuiet ==
    /\ pending_requests = [u \in Users |-> None]
    /\ remote = [g \in Groups |-> {}]
    /\ stuck = {}
    /\ joinUpdates = {}
    /\ joins = 0
    /\ faults = 0
    /\ btn = BtnIdle
    /\ run = RunIdle
    /\ queue = <<>>
    /\ unfinished = 0
    /\ counter = 0
    /\ wk = [w \in Workers |-> WkOff]
    /\ reply = "none"
    /\ asked = NoOne
    /\ sender = "none"
    /\ hist = HistStart
    /\ reg = [u \in Users |-> RegStart]

\* (variant: everyone is let through)
AllowedAnyone(s) == TRUE

\* "update.effective_user.id not in ADMIN_IDS" is false
Allowed(s) == s \in ADMIN_IDS

\* Observation of who sent the update a handler was given.
From(s) == IF s \in ADMIN_IDS THEN "admin" ELSE "other"

\* (variant: updates handled concurrently)
CanDispatchAlways == TRUE

\* main(): the Application is built without concurrent_updates and every
\* handler is registered with the default block=True, so the update loop
\* awaits the handler of one update before it takes the next.
CanDispatch == btn.pc = "idle" /\ run.pc = "idle"

\* ---- environment
\* A user asks to join a chat: the platform lists the request as pending and
\* queues a ChatJoinRequest update for the bot.
UserRequestsJoin(g, u) ==
    /\ sender' = "none"
    /\ asked' = NoOne
    /\ UNCHANGED stuck
    /\ joins < MaxJoins
    /\ u \notin remote[g]
    /\ remote' = [remote EXCEPT ![g] = @ \cup {u}]
    /\ joinUpdates' = joinUpdates \cup {<<g, u>>}
    /\ joins' = joins + 1
    /\ hist' = Disturb(g)
    /\ reply' = "none"
    /\ UNCHANGED <<pending_requests, faults, btn, run, queue, unfinished, counter,
                   wk, reg, ex, lim>>

\* A pending request is resolved outside the bot (an admin in the client,
\* the user withdrawing).
RemoteResolve(g, u) ==
    /\ sender' = "none"
    /\ asked' = NoOne
    /\ UNCHANGED stuck
    /\ faults < MaxFaults
    /\ u \in remote[g]
    /\ remote' = Resolve(g, u)
    /\ faults' = faults + 1
    /\ hist' = Disturb(g)
    /\ reply' = "none"
    /\ UNCHANGED <<pending_requests, joinUpdates, joins, btn, run, queue,
                   unfinished, counter, wk, reg, ex, lim>>

\* ---- on_join_request
\* The entry is recorded under the user id alone. The buttons sent to the
\* admins carry "approve:<chat>:<user>" and "decline:<chat>:<user>"; callback
\* data reach button_handler as the client sends them, so button_handler is
\* given any data.
on_join_request(g, u) ==
    /\ sender' = "none"
    /\ asked' = NoOne
    /\ UNCHANGED stuck
    /\ CanDispatch
    /\ <<g, u>> \in joinUpdates
    /\ joinUpdates' = joinUpdates \ {<<g, u>>}
    /\ pending_requests' = [pending_requests EXCEPT ![u] = g]
    /\ reg' = [reg EXCEPT ![u] = [RegStart EXCEPT !.sent = reg[u].sent \cup {g},
                                                  !.open = reg[u].open \cup {g}]]
    /\ reply' = "none"
    /\ UNCHANGED <<remote, joins, faults, btn, run, queue, unfinished, counter, wk,
                   hist, ex, lim>>

\* ---- button_handler
\* (variant: the entry is read and left in place)
PopKeep(registry, u) == registry

\* pending_requests.pop(user_id)
PopEntry(registry, u) == [registry EXCEPT ![u] = None]

\* (variant: the recorded chat is not compared)
SameChatAny(chat_id, chat_id_stored) == TRUE

\* "chat_id != chat_id_stored" is false
SameChat(chat_id, chat_id_stored) == chat_id = chat_id_stored

\* Observation of a callback obtaining the entry of u while naming chat g.
Took(u, g) ==
    Handled([reg EXCEPT ![u].taken = Sat(@), ![u].wrong = g # pending_requests[u]], u, g)

\* From the callback's arrival to the handler's first remote call or its return.
button_handler(s, action, g, u) ==
    /\ sender' = From(s)
    /\ asked' = IF From(s) = "admin" /\ action = "approve" /\ g \in reg[u].open
                THEN [chat |-> g, user |-> u] ELSE NoOne
    /\ UNCHANGED stuck
    /\ CanDispatch
    /\ btn.pc = "idle"
    /\ UNCHANGED <<remote, joinUpdates, joins, faults, run, queue, unfinished,
                   counter, wk, hist, ex, lim>>
    /\ IF ~Allowed(s)
       THEN reply' = "unauthorized" /\ UNCHANGED <<pending_requests, btn, reg>>
       ELSE IF action = "malformed"
       THEN reply' = "bad_data" /\ UNCHANGED <<pending_requests, btn, reg>>
       ELSE IF pending_requests[u] = None
       THEN /\ reply' = "already_handled"
            /\ reg' = Handled([reg EXCEPT ![u].late = @ \/ reg[u].taken > 0], u, g)
            /\ UNCHANGED <<pending_requests, btn>>
       ELSE /\ pending_requests' = PopEntry(pending_requests, u)
            /\ IF ~SameChat(g, pending_requests[u])
               THEN /\ reply' = "mismatch"
                    /\ reg' = [Took(u, g) EXCEPT ![u].dropped = Sat(@)]
                    /\ UNCHANGED btn
               ELSE IF action \in {"approve", "decline"}
               THEN /\ btn' = [BtnIdle EXCEPT !.pc = IF action = "approve" THEN "call" ELSE "decline",
                                              !.chat = g, !.user = u]
                    /\ reg' = [Took(u, g) EXCEPT ![u].mut = Sat(@)]
                    /\ reply' = "none"
               ELSE /\ reg' = [Took(u, g) EXCEPT ![u].dropped = Sat(@)]
                    /\ reply' = "none"
                    /\ UNCHANGED btn

\* safe_approve of the handler: the remote call ends.
ButtonRespond(outcome) ==
    /\ sender' = "none"
    /\ asked' = NoOne
    /\ UNCHANGED stuck
    /\ btn.pc = "call"
    /\ outcome \in ApproveOutcomes(btn.chat, btn.user)
    /\ faults' = faults + FaultCost(btn.chat, btn.user, outcome)
    /\ LET c == Classify(outcome) IN
       /\ remote' = IF outcome = "ok" THEN Resolve(btn.chat, btn.user) ELSE remote
       /\ btn' = IF c = "sleep" THEN [btn EXCEPT !.pc = "sleep", !.kind = outcome]
                 ELSE BtnIdle
       /\ reply' = IF c = "sleep" THEN "none"
                   ELSE IF c = "true" THEN "approved" ELSE "approve_failed"
    /\ UNCHANGED <<pending_requests, joinUpdates, joins, run, queue, unfinished,
                   counter, wk, hist, reg, ex, lim>>

\* safe_approve of the handler: the sleep after a transient failure ends.
ButtonWake ==
    /\ sender' = "none"
    /\ asked' = NoOne
    /\ UNCHANGED stuck
    /\ btn.pc = "sleep"
    /\ IF GiveUp(btn.kind, btn.retries + 1)
       THEN btn' = BtnIdle /\ reply' = "approve_failed"
       ELSE btn' = [btn EXCEPT !.pc = "call", !.retries = @ + 1] /\ reply' = "none"
    /\ UNCHANGED <<pending_requests, remote, joinUpdates, joins, faults, run, queue,
                   unfinished, counter, wk, hist, reg, ex, lim>>

\* decline_chat_join_request ends: done, or any exception (reported).
ButtonDeclineRespond(ok) ==
    /\ sender' = "none"
    /\ asked' = NoOne
    /\ UNCHANGED stuck
    /\ btn.pc = "decline"
    /\ ok => btn.user \in remote[btn.chat]
    /\ (~ok /\ btn.user \in remote[btn.chat]) => faults < MaxFaults
    /\ faults' = IF ~ok /\ btn.user \in remote[btn.chat] THEN faults + 1 ELSE faults
    /\ remote' = IF ok THEN Resolve(btn.chat, btn.user) ELSE remote
    /\ reply' = IF ok THEN "declined" ELSE "decline_error"
    /\ btn' = BtnIdle
    /\ UNCHANGED <<pending_requests, joinUpdates, joins, run, queue, unfinished,
                   counter, wk, hist, reg, ex, lim>>

\* ---- bulk_approve_core
\* (variant: the whole list in one page)
FetchAll(g) == {remote[g]}

\* get_chat_join_requests(chat_id, limit=page_size): the pages the remote may
\* return, at most page_size of the pending requests.
FetchPages(g) ==
    {S \in SUBSET remote[g] : Cardinality(S) = Min(page_size, Cardinality(remote[g]))}

\* The enqueue loop: it stops at the first entry once limit is set and
\* approved_total, which the loop does not change, has reached it.
Enqueue(reqs, limit, total) ==
    IF limit # None /\ total >= limit THEN <<>> ELSE reqs

\* (variant: neither emptiness test)
StopNever(reqs, q) == FALSE

\* "if not reqs: break" and "if queue.qsize() == 0: break"
StopAfterFetch(reqs, q) == reqs = <<>> \/ q = <<>>

\* "if limit and approved_total >= limit: break" after a batch
CapReached(limit, total) == limit # None /\ total >= limit

\* The command starts bulk_approve_core, up to its first page fetch.
StartRun(g, limit) ==
    /\ run' = [pc |-> "fetch", chat |-> g, limit |-> limit, approved_total |-> 0]
    /\ reply' = "started"
    /\ hist' = HistStart

cmd_approve_all(s, g) ==
    /\ sender' = From(s)
    /\ asked' = NoOne
    /\ UNCHANGED stuck
    /\ CanDispatch
    /\ run.pc = "idle"
    /\ IF ~Allowed(s) THEN reply' = "unauthorized" /\ UNCHANGED <<run, hist>>
       ELSE IF g = None THEN reply' = "usage" /\ UNCHANGED <<run, hist>>
       ELSE StartRun(g, None)
    /\ UNCHANGED <<pending_requests, remote, joinUpdates, joins, faults, btn, queue,
                   unfinished, counter, wk, reg, ex, lim>>

\* count = 0 stands for a missing, non-numeric or non-positive argument.
cmd_approve(s, count, g) ==
    /\ sender' = From(s)
    /\ asked' = NoOne
    /\ UNCHANGED stuck
    /\ CanDispatch
    /\ run.pc = "idle"
    /\ IF ~Allowed(s) THEN reply' = "unauthorized" /\ UNCHANGED <<run, hist>>
       ELSE IF count <= 0 \/ g = None THEN reply' = "usage" /\ UNCHANGED <<run, hist>>
       ELSE StartRun(g, count)
    /\ UNCHANGED <<pending_requests, remote, joinUpdates, joins, faults, btn, queue,
                   unfinished, counter, wk, reg, ex, lim>>

\* The page fetch fails: RetryAfter sleeps and fetches again, Forbidden and
\* any other exception end the run without a final count.
BulkFetchFail(kind) ==
    /\ sender' = "none"
    /\ asked' = NoOne
    /\ UNCHANGED stuck
    /\ run.pc = "fetch"
    /\ faults < MaxFaults
    /\ faults' = faults + 1
    /\ hist' = [hist EXCEPT !.clean = FALSE]
    /\ IF kind = "retry_after" THEN reply' = "none" /\ UNCHANGED run
       ELSE /\ run' = [run EXCEPT !.pc = "done"]
            /\ reply' = IF kind = "forbidden" THEN "no_permission" ELSE "list_failed"
    /\ UNCHANGED <<pending_requests, remote, joinUpdates, joins, btn, queue,
                   unfinished, counter, wk, reg, ex, lim>>

\* The page arrives: stop with the final count, or fill the queue, create the
\* workers and wait in queue.join().
BulkFetch(page) ==
    /\ sender' = "none"
    /\ asked' = NoOne
    /\ UNCHANGED stuck
    /\ run.pc = "fetch"
    /\ page \in FetchPages(run.chat)
    /\ LET reqs == SetToSeq(page)
           q == Enqueue(reqs, run.limit, run.approved_total)
           h == [hist EXCEPT !.fetches = Rec(@, Len(reqs)),
                             !.m0 = IF @ = -1 THEN Cardinality(remote[run.chat]) ELSE @]
       IN IF StopAfterFetch(reqs, q)
          THEN /\ run' = [run EXCEPT !.pc = "done"]
               /\ reply' = "finished"
               /\ hist' = [h EXCEPT !.reported = run.approved_total]
               /\ UNCHANGED <<queue, unfinished, counter, wk>>
          ELSE /\ run' = [run EXCEPT !.pc = "join"]
               /\ queue' = q
               /\ unfinished' = Len(q)
               /\ counter' = 0
               /\ wk' = [w \in Workers |-> [WkOff EXCEPT !.pc = "get"]]
               /\ hist' = [h EXCEPT !.enq = Cnt(@, Len(q)), !.batches = Cnt(@, 1),
                                 !.page = {q[i] : i \in 1..Len(q)},
                                 !.starts = [u \in Users |-> 0]]
               /\ reply' = "none"
    /\ UNCHANGED <<pending_requests, remote, joinUpdates, joins, faults, btn, reg, ex, lim>>

\* ---- _approve_worker
\* (variant: the item is read and left in the queue)
AfterPeek(q) == q

\* queue.get() removes the item it returns.
AfterGet(q) == Tail(q)

\* From queue.get() to the next suspension: waiting for an item, exited on
\* the sentinel, asleep in limiter.wait() (sleepy), or the approve call issued.
TakeNext(q, unf, sleepy) ==
    IF q = <<>>
    THEN [queue |-> q, unfinished |-> unf, w |-> [WkOff EXCEPT !.pc = "get"]]
    ELSE IF Head(q) = None
    THEN [queue |-> Tail(q), unfinished |-> unf - 1, w |-> [WkOff EXCEPT !.pc = "done"]]
    ELSE [queue |-> AfterGet(q), unfinished |-> unf,
          w |-> [WkOff EXCEPT !.pc = IF sleepy THEN "lsleep" ELSE "call", !.user = Head(q)]]

\* Observation of a remote approve call being issued; the first call of a
\* job is the start of its safe_approve.
Called(h, w) ==
    IF w.pc = "call"
    THEN [h EXCEPT !.calls = Cnt(@, 1), !.afterForb = @ \/ h.forb,
                   !.starts[w.user] = IF w.retries = 0 THEN Sat(@) ELSE @]
    ELSE h

WorkerGet(w, sleepy) ==
    /\ sender' = "none"
    /\ asked' = NoOne
    /\ UNCHANGED stuck
    /\ wk[w].pc = "get"
    /\ queue # <<>>
    /\ LET n == TakeNext(queue, unfinished, sleepy) IN
       /\ queue' = n.queue
       /\ unfinished' = n.unfinished
       /\ wk' = [wk EXCEPT ![w] = n.w]
       /\ hist' = Called(hist, n.w)
    /\ reply' = "none"
    /\ UNCHANGED <<pending_requests, remote, joinUpdates, joins, faults, btn, run,
                   counter, reg, ex, lim>>

\* The sleep inside limiter.wait() ends; safe_approve issues its call.
WorkerLimiterWake(w) ==
    /\ sender' = "none"
    /\ asked' = NoOne
    /\ UNCHANGED stuck
    /\ wk[w].pc = "lsleep"
    /\ wk' = [wk EXCEPT ![w].pc = "call"]
    /\ hist' = Called(hist, wk'[w])
    /\ reply' = "none"
    /\ UNCHANGED <<pending_requests, remote, joinUpdates, joins, faults, btn, run,
                   queue, unfinished, counter, reg, ex, lim>>

\* (variant: the counter is written from a value read before the call, so
\* that successes of concurrent workers count once)
BumpStale(c, ok) == IF ok THEN 1 ELSE c

\* "if ok: counter["ok"] += 1": read and write with no await in between.
Bump(c, ok) == IF ok THEN c + 1 ELSE c

\* safe_approve returned: count a success, task_done(), and loop to
\* queue.get(), which hands over the next item without suspending.
JobDone(w, ok, forbidden, sleepy) ==
    LET n == TakeNext(queue, unfinished - 1, sleepy)
        h == [hist EXCEPT !.oks = Cnt(@, IF ok THEN 1 ELSE 0),
                          !.fails = Cnt(@, IF ok THEN 0 ELSE 1),
                          !.forb = @ \/ forbidden,
                          !.clean = @ /\ ok,
                          !.approved = IF ok THEN @ \cup {wk[w].user} ELSE @]
    IN /\ counter' = Bump(counter, ok)
       /\ queue' = n.queue
       /\ unfinished' = n.unfinished
       /\ wk' = [wk EXCEPT ![w] = n.w]
       /\ hist' = Called(h, n.w)

\* The worker's remote call ends.
WorkerRespond(w, outcome, sleepy) ==
    /\ sender' = "none"
    /\ asked' = NoOne
    /\ UNCHANGED stuck
    /\ wk[w].pc = "call"
    /\ outcome \in ApproveOutcomes(run.chat, wk[w].user)
    /\ faults' = faults + FaultCost(run.chat, wk[w].user, outcome)
    /\ remote' = IF outcome = "ok" THEN Resolve(run.chat, wk[w].user) ELSE remote
    /\ IF Classify(outcome) = "sleep"
       THEN /\ wk' = [wk EXCEPT ![w].pc = "sleep", ![w].kind = outcome]
            /\ hist' = [hist EXCEPT !.clean = FALSE]
            /\ UNCHANGED <<queue, unfinished, counter>>
       ELSE JobDone(w, Classify(outcome) = "true", outcome = "forbidden", sleepy)
    /\ reply' = "none"
    /\ UNCHANGED <<pending_requests, joinUpdates, joins, btn, run, reg, ex, lim>>

\* The worker's sleep after a transient failure ends.
WorkerWake(w, sleepy) ==
    /\ sender' = "none"
    /\ asked' = NoOne
    /\ UNCHANGED stuck
    /\ wk[w].pc = "sleep"
    /\ IF GiveUp(wk[w].kind, wk[w].retries + 1)
       THEN JobDone(w, FALSE, FALSE, sleepy)
       ELSE /\ wk' = [wk EXCEPT ![w].pc = "call", ![w].retries = @ + 1]
            /\ hist' = Called(hist, wk'[w])
            /\ UNCHANGED <<queue, unfinished, counter>>
    /\ reply' = "none"
    /\ UNCHANGED <<pending_requests, remote, joinUpdates, joins, faults, btn, run,
                   reg, ex, lim>>

\* queue.join() returns: one sentinel per worker, then gather.
BulkJoinDone ==
    /\ sender' = "none"
    /\ asked' = NoOne
    /\ UNCHANGED stuck
    /\ run.pc = "join"
    /\ unfinished = 0
    /\ queue' = queue \o Repeat(None, BULK_CONCURRENCY)
    /\ unfinished' = unfinished + BULK_CONCURRENCY
    /\ run' = [run EXCEPT !.pc = "gather"]
    /\ reply' = "none"
    /\ UNCHANGED <<pending_requests, remote, joinUpdates, joins, faults, btn, counter,
                   wk, hist, reg, ex, lim>>

\* (variant: gather does not wait for the worker)
ExitedAny(w) == TRUE

\* The worker task has finished: it read its sentinel and left the loop.
Exited(w) == wk[w].pc = "done"

\* gather returns: add the batch's count; stop at the cap with the final
\* count, or pause and fetch the next page. The finished tasks are dropped.
BulkGather ==
    /\ sender' = "none"
    /\ asked' = NoOne
    /\ UNCHANGED stuck
    /\ run.pc = "gather"
    /\ \A w \in Workers : Exited(w)
    /\ wk' = [w \in Workers |-> IF wk[w].pc = "done" THEN WkOff ELSE wk[w]]
    /\ LET total == run.approved_total + counter IN
       IF CapReached(run.limit, total)
       THEN /\ run' = [run EXCEPT !.pc = "done", !.approved_total = total]
            /\ reply' = "finished"
            /\ hist' = [hist EXCEPT !.reported = total]
       ELSE /\ run' = [run EXCEPT !.pc = "fetch", !.approved_total = total]
            /\ reply' = "none"
            /\ UNCHANGED hist
    /\ UNCHANGED <<pending_requests, remote, joinUpdates, joins, faults, btn, queue,
                   unfinished, counter, reg, ex, lim>>

\* bulk_approve_core returns to the update loop; its locals are gone.
BulkReturn ==
    /\ sender' = "none"
    /\ asked' = NoOne
    /\ UNCHANGED stuck
    /\ run.pc = "done"
    /\ run' = RunIdle
    /\ hist' = HistStart
    /\ counter' = 0
    /\ reply' = "none"
    /\ UNCHANGED <<pending_requests, remote, joinUpdates, joins, faults, btn, queue,
                   unfinished, wk, reg, ex, lim>>

\* ================================================================ SpecExec
\* One safe_approve call. ex.pc: "call" (the remote call is in flight),
\* "sleep" (asyncio.sleep after a transient failure), "done" (returned).
\* Observations: calls (remote calls issued), last (outcome of the latest
\* call), slept (seconds of the latest sleep), nRA / nNet (failures caught by
\* each transient branch).
MaxRetryAfter == 2

ExStart ==
    [pc |-> "call", retries |-> 0, calls |-> 1, kind |-> "none", t |-> 0,
     timer |-> 0, slept |-> 0, result |-> "none", last |-> "none",
     nRA |-> 0, nNet |-> 0]

ExQuiet == ex = [ExStart EXCEPT !.pc = "off", !.calls = 0]

\* The remote call ends: success, or one of the exceptions safe_approve catches.
ExRespond(outcome, t) ==
    /\ ex.pc = "call"
    /\ LET c == Classify(outcome) IN
       IF c = "sleep"
       THEN ex' = [ex EXCEPT !.pc = "sleep", !.kind = outcome, !.last = outcome,
                             !.t = IF outcome = "retry_after" THEN t ELSE 0,
                             !.timer = SleepFor(outcome, t), !.slept = 0,
                             !.nRA = @ + (IF outcome = "retry_after" THEN 1 ELSE 0),
                             !.nNet = @ + (IF outcome = "network" THEN 1 ELSE 0)]
       ELSE ex' = [ex EXCEPT !.pc = "done", !.result = c, !.last = outcome]
    /\ UNCHANGED <<botVars, lim>>

\* One second of the sleep passes.
ExTick ==
    /\ ex.pc = "sleep"
    /\ ex.timer > 0
    /\ ex' = [ex EXCEPT !.timer = @ - 1, !.slept = @ + 1]
    /\ UNCHANGED <<botVars, lim>>

\* The sleep ends: count the retry, give up or call again.
ExWake ==
    /\ ex.pc = "sleep"
    /\ ex.timer = 0
    /\ IF GiveUp(ex.kind, ex.retries + 1)
       THEN ex' = [ex EXCEPT !.pc = "done", !.retries = @ + 1, !.result = "false"]
       ELSE ex' = [ex EXCEPT !.pc = "call", !.retries = @ + 1, !.calls = @ + 1]
    /\ UNCHANGED <<botVars, lim>>

\* ============================================================ SpecLimiter
\* RateLimiter(BULK_RPS) shared by the workers of a batch. The clock counts
\* ticks of 1 / max(1, BULK_RPS) seconds, so that min_interval is one tick
\* and a second is TicksPerSecond ticks. lim.pc[w]: "ready" (about to call
\* wait()), "sleep" (inside wait(), asleep until lim.wake[w]), "busy" (wait()
\* returned, safe_approve running). lim.adm: the times at which wait()
\* returned, kept while they are less than a second old.
BULK_RPS == 2
LimWorkers == 4
MaxTime == 2

TicksPerSecond == Max(1, BULK_RPS)
min_interval == TicksPerSecond \div Max(1, BULK_RPS)
LWorkers == 1..LimWorkers

LimStart ==
    [now |-> 0, next |-> 0, pc |-> [w \in LWorkers |-> "ready"],
     wake |-> [w \in LWorkers |-> 0], adm |-> <<>>]

LimQuiet == lim = [LimStart EXCEPT !.pc = [w \in LWorkers |-> "off"]]

\* self._next = max(self._next + self.min_interval, monotonic()), and the
\* return of wait() observed.
Admit(l, w) ==
    [l EXCEPT !.next = Max(l.next + min_interval, l.now),
              !.adm = Append(@, l.now),
              !.pc[w] = "busy"]

\* wait() is called: it returns at once, or sleeps for _next - now.
LimWait(w) ==
    /\ lim.pc[w] = "ready"
    /\ lim' = IF lim.now < lim.next
              THEN [lim EXCEPT !.pc[w] = "sleep", !.wake[w] = lim.next]
              ELSE Admit(lim, w)
    /\ UNCHANGED <<botVars, ex>>

\* The sleep of wait() is over.
LimWake(w) ==
    /\ lim.pc[w] = "sleep"
    /\ lim.now >= lim.wake[w]
    /\ lim' = Admit(lim, w)
    /\ UNCHANGED <<botVars, ex>>

\* safe_approve returned and the worker took its next job.
LimJobDone(w) ==
    /\ lim.pc[w] = "busy"
    /\ lim' = [lim EXCEPT !.pc[w] = "ready"]
    /\ UNCHANGED <<botVars, ex>>

\* One tick passes; returns a second old leave the window.
LimTick ==
    /\ lim.now < MaxTime
    /\ lim' = [lim EXCEPT !.now = @ + 1,
                          !.adm = SelectSeq(@, LAMBDA t : t > lim.now + 1 - TicksPerSecond)]
    /\ UNCHANGED <<botVars, ex>>

\* ========================================================= specifications
\* The bot has started: nothing recorded, no handler running.
Started ==
    /\ pending_requests = [u \in Users |-> None]
    /\ joins = 0
    /\ faults = 0
    /\ btn = BtnIdle
    /\ run = RunIdle
    /\ queue = <<>>
    /\ unfinished = 0
    /\ counter = 0
    /\ wk = [w \in Workers |-> WkOff]
    /\ reply = "none"
    /\ asked = NoOne
    /\ sender = "none"
    /\ hist = HistStart
    /\ reg = [u \in Users |-> RegStart]
    /\ ExQuiet
    /\ LimQuiet

Init ==
    /\ Started
    /\ \E m \in 0..NUsers : remote = [g \in Groups |-> IF g = 1 THEN 1..m ELSE {}]
    /\ joinUpdates = {}
    /\ stuck = {}

Next ==
    \/ \E g \in Groups, u \in Users : UserRequestsJoin(g, u)
    \/ \E g \in Groups, u \in Users : RemoteResolve(g, u)
    \/ \E g \in Groups, u \in Users : on_join_request(g, u)
    \/ \E s \in Senders, action \in {"approve", "decline", "other", "malformed"},
          g \in Groups, u \in Users : button_handler(s, action, g, u)
    \/ \E outcome \in {"ok"} \cup Failures : ButtonRespond(outcome)
    \/ ButtonWake
    \/ \E ok \in BOOLEAN : ButtonDeclineRespond(ok)
    \/ \E s \in Senders, g \in Groups \cup {None} : cmd_approve_all(s, g)
    \/ \E s \in Senders, count \in 0..MaxCap, g \in Groups \cup {None} :
          cmd_approve(s, count, g)
    \/ \E kind \in {"retry_after", "forbidden", "other"} : BulkFetchFail(kind)
    \/ \E page \in SUBSET Users : BulkFetch(page)
    \/ \E w \in Workers, sleepy \in BOOLEAN : WorkerGet(w, sleepy)
    \/ \E w \in Workers : WorkerLimiterWake(w)
    \/ \E w \in Workers, outcome \in {"ok"} \cup Failures, sleepy \in BOOLEAN :
          WorkerRespond(w, outcome, sleepy)
    \/ \E w \in Workers, sleepy \in BOOLEAN : WorkerWake(w, sleepy)
    \/ BulkJoinDone
    \/ BulkGather
    \/ BulkReturn

Spec == Init /\ [][Next]_vars

\* Bulk runs alone, over lists that may hold users the platform refuses,
\* with page fetches that succeed. The event loop runs every task that is
\* ready and the remote answers every call.
InitLive ==
    /\ Started
    /\ \E m \in 1..NUsers : remote = [g \in Groups |-> IF g = 1 THEN 1..m ELSE {}]
    /\ joinUpdates = {}
    /\ stuck \in SUBSET remote[1]

RunStep ==
    \/ \E page \in SUBSET Users : BulkFetch(page)
    \/ BulkJoinDone
    \/ BulkGather
    \/ BulkReturn

WorkerStep(w) ==
    \/ \E sleepy \in BOOLEAN : WorkerGet(w, sleepy)
    \/ WorkerLimiterWake(w)
    \/ \E outcome \in {"ok"} \cup Failures, sleepy \in BOOLEAN :
          WorkerRespond(w, outcome, sleepy)
    \/ \E sleepy \in BOOLEAN : WorkerWake(w, sleepy)

NextLive ==
    \/ \E s \in Senders, g \in Groups \cup {None} : cmd_approve_all(s, g)
    \/ \E s \in Senders, count \in 0..MaxCap, g \in Groups \cup {None} :
          cmd_approve(s, count, g)
    \/ RunStep
    \/ \E w \in Workers : WorkerStep(w)

SpecLive ==
    /\ InitLive
    /\ [][NextLive]_vars
    /\ WF_vars(RunStep)
    /\ \A w \in Workers : WF_vars(WorkerStep(w))

\* The join requests and the buttons alone: the bot starts with some join
\* requests waiting as updates, and every callback comes from a button that
\* on_join_request sent.
InitButtons ==
    /\ Started
    /\ stuck = {}
    /\ \E J \in SUBSET (Groups \X Users) :
          /\ Cardinality(J) <= NGroups
          /\ joinUpdates = J
          /\ remote = [g \in Groups |-> {u \in Users : <<g, u>> \in J}]

NextButtons ==
    \/ \E g \in Groups, u \in Users : UserRequestsJoin(g, u)
    \/ \E g \in Groups, u \in Users : on_join_request(g, u)
    \/ \E s \in Senders, action \in {"approve", "decline"}, g \in Groups, u \in Users :
          g \in reg[u].sent /\ button_handler(s, action, g, u)
    \/ \E outcome \in {"ok"} \cup Failures : ButtonRespond(outcome)
    \/ ButtonWake
    \/ \E ok \in BOOLEAN : ButtonDeclineRespond(ok)

SpecButtons == InitButtons /\ [][NextButtons]_vars

InitExec ==
    /\ BotQuiet
    /\ LimQuiet
    /\ ex = ExStart

NextExec ==
    \/ \E outcome \in {"ok"} \cup Failures, t \in 0..MaxRetryAfter : ExRespond(outcome, t)
    \/ ExTick
    \/ ExWake

SpecExec == InitExec /\ [][NextExec]_vars

InitLimiter ==
    /\ BotQuiet
    /\ ExQuiet
    /\ lim = LimStart

NextLimiter ==
    \/ \E w \in LWorkers : LimWait(w)
    \/ \E w \in LWorkers : LimWake(w)
    \/ \E w \in LWorkers : LimJobDone(w)
    \/ LimTick

SpecLimiter == InitLimiter /\ [][NextLimiter]_vars

\* ================================================================= claims
\* ---------------------------------------------------------------- SpecExec
Fatal == {"forbidden", "bad_request", "other"}

C7_RetryAfterSleeps ==
    /\ (ex.pc = "call" /\ ex.kind = "retry_after") => ex.slept >= ex.t
    /\ (ex.pc = "done" /\ ex.last = "ok") => ex.result = "true"

C7_Witness ==
    /\ ex.pc = "done" /\ ex.result = "true"
    /\ ex.kind = "retry_after" /\ ex.t = MaxRetryAfter /\ ex.slept >= ex.t

\* C8: with transient overload only, at most RetryAfterMax retries are made
\* (RetryAfterMax + 1 remote calls); the result is false exactly when all of
\* them failed, and a success on any of them gives true.
C8_RetryAfterBound ==
    ex.nNet = 0 =>
        /\ ex.calls <= RetryAfterMax + 1
        /\ ex.retries <= RetryAfterMax + 1
        /\ (ex.pc = "done" /\ ex.last = "retry_after") =>
               ex.result = "false" /\ ex.calls = RetryAfterMax + 1
        /\ (ex.pc = "done" /\ ex.last = "ok") => ex.result = "true"

C8_Witness ==
    /\ ex.pc = "done" /\ ex.result = "false"
    /\ ex.nNet = 0 /\ ex.nRA = RetryAfterMax + 1 /\ ex.calls = RetryAfterMax + 1

\* ------------------------------------------------------------- SpecLimiter
\* C2 (as claimed): within any rolling second at most BULK_RPS returns of
\* wait(), plus one of slack.
C2_RateCeiling == Len(lim.adm) <= BULK_RPS + 1

\* -------------------------------------------------------------------- Spec
\* C1 (as claimed): a capped run over a longer list, all approvals
\* succeeding, enqueues at most cap jobs in total and reports exactly cap.
C1_CapRespected ==
    (run.limit # None /\ hist.m0 > run.limit /\ hist.clean) =>
        /\ hist.enq <= run.limit
        /\ run.pc = "done" => hist.reported = run.limit

\* Mutating remote operations in progress for user u: a safe_approve or a
\* decline that has started and not returned.
InFlightOn(u) ==
    (IF btn.pc \in {"call", "sleep", "decline"} /\ btn.user = u THEN 1 ELSE 0)
    + Cardinality({w \in Workers : wk[w].pc \in {"call", "sleep"} /\ wk[w].user = u})

\* C3: since the latest recorded join request of a user, at most one callback
\* obtained its entry, only that callback went on to a remote approve or
\* decline (and it did, unless its group or action did not match), and a
\* callback that reports "already handled" starts no remote call.
C3_TakenOnce ==
    /\ \A u \in Users :
        /\ reg[u].taken <= 1
        /\ reg[u].mut <= reg[u].taken
        /\ reg[u].dropped = 0 => reg[u].mut = reg[u].taken
        /\ pending_requests[u] # None => reg[u].taken = 0
        /\ reg[u].late => pending_requests[u] = None
    /\ reply = "already_handled" => btn.pc = "idle"

C3_Witness ==
    /\ reply = "already_handled"
    /\ \E u \in Users : reg[u].late /\ reg[u].mut = 1 /\ reg[u].dropped = 0

\* C4: no user is the subject of two mutating remote operations at once.
C4_OneInFlight == \A u \in Users : InFlightOn(u) <= 1

C4_Witness ==
    \E w \in Workers :
        /\ wk[w].pc = "call"
        /\ pending_requests[wk[w].user] = run.chat
        /\ \E v \in Workers : v # w /\ wk[v].pc = "call"

\* C5 (as claimed): after an approval of a run failed with a permission
\* denial, the run issues no further approve call.
C5_ForbiddenStopsRun == ~hist.afterForb

\* C9: a run whose first page is empty ends at once: no worker is created,
\* no approve call is issued, and the final count is 0.
C9_EmptyList ==
    (hist.fetches # <<>> /\ hist.fetches[1] = 0) =>
        /\ run.pc = "done"
        /\ hist.reported = 0
        /\ hist.calls = 0
        /\ hist.batches = 0
        /\ \A w \in Workers : wk[w].pc = "off"
        /\ btn.pc = "idle"

C9_Witness == run.pc = "done" /\ hist.fetches = <<0>> /\ hist.reported = 0 /\ reply = "finished"

CeilDiv(a, b) == (a + b - 1) \div b

RECURSIVE ExpectedPages(_)
\* Page sizes of an undisturbed uncapped run over m requests: the non-empty
\* pages, then the empty page that ends the loop.
ExpectedPages(m) ==
    IF m = 0 THEN <<0>>
    ELSE <<Min(m, page_size)>> \o ExpectedPages(m - Min(m, page_size))

\* An uncapped run has ended with its final count; every page fetch and every
\* approval of it succeeded and nothing else changed the chat's pending list.
UncappedCleanRun ==
    run.pc = "done" /\ hist.reported >= 0 /\ run.limit = None /\ hist.clean

\* C10 (as claimed): an undisturbed uncapped run over m requests makes
\* exactly ceil(m / page_size) page fetches and reports m.
C10_PagesAsClaimed ==
    (UncappedCleanRun /\ hist.m0 > 0) =>
        /\ Len(hist.fetches) = CeilDiv(hist.m0, page_size)
        /\ hist.reported = hist.m0

\* C10 (amended): such a run fetches the ceil(m / page_size) non-empty pages
\* of sizes page_size, ..., page_size, remainder, then one more page, which
\* is empty and ends the loop; it reports m.
C10_PagesThenEmpty ==
    UncappedCleanRun =>
        /\ hist.fetches = ExpectedPages(hist.m0)
        /\ Len(hist.fetches) = CeilDiv(hist.m0, page_size) + 1
        /\ hist.reported = hist.m0

C10_Witness ==
    /\ UncappedCleanRun
    /\ hist.m0 > page_size
    /\ hist.m0 % page_size # 0
    /\ Len(hist.fetches) = 3

\* Jobs of the current bulk run that are still queued or held by a worker.
JobsOpen ==
    Len(SelectSeq(queue, LAMBDA x : x # None))
    + Cardinality({w \in Workers : wk[w].pc \in {"lsleep", "call", "sleep"}})

\* C11: while a page is being requested, and after the run's last batch, no
\* job of an earlier page is queued or held by a worker, every job enqueued
\* so far has completed, and every worker of the earlier batches has exited.
C11_DrainedBeforeFetch ==
    run.pc \in {"fetch", "done"} =>
        /\ JobsOpen = 0
        /\ queue = <<>>
        /\ unfinished = 0
        /\ hist.enq < HistCap => hist.oks + hist.fails = hist.enq
        /\ \A w \in Workers : wk[w].pc = "off"

\* The second page has been fetched after a full first batch.
C11_Witness ==
    /\ Len(hist.fetches) = 2 /\ hist.fetches[1] = page_size /\ hist.fetches[2] > 0
    /\ run.pc = "join"
    /\ hist.batches = 2
    /\ hist.oks + hist.fails >= page_size

\* C12 (as claimed): no applicant that the current bulk run approved is held
\* by the registry.
C12_BulkClearsRegistry == \A u \in hist.approved : pending_requests[u] = None

\* C13: a step that handles a button callback or a bulk command from a sender
\* who is not in ADMIN_IDS leaves the registry unchanged and starts no remote
\* approve, decline or list call: no handler or run starts, the remote lists
\* stay as they are, and the sender is told so.
C13_NonAdminNoEffect ==
    [][sender' = "other" =>
          /\ pending_requests' = pending_requests
          /\ remote' = remote
          /\ btn' = btn
          /\ run' = run
          /\ wk' = wk
          /\ queue' = queue
          /\ hist' = hist
          /\ reply' = "unauthorized"]_vars

C13_Witness ==
    /\ sender = "other"
    /\ reply = "unauthorized"
    /\ \E u \in Users : pending_requests[u] # None /\ u \in remote[pending_requests[u]]

\* C14: a step in which an admin's callback obtains the entry of u while
\* naming another chat than the entry records reports the mismatch and starts
\* no remote approve or decline call.
C14_MismatchNotExecuted ==
    [][(\E u \in Users : reg'[u].wrong /\ ~reg[u].wrong) =>
          /\ reply' = "mismatch"
          /\ btn' = btn
          /\ remote' = remote]_vars

C14_Witness ==
    /\ reply = "mismatch"
    /\ btn.pc = "idle"
    /\ \E u \in Users : reg[u].wrong /\ reg[u].mut = 0 /\ pending_requests[u] = None

\* C15 (as claimed): every callback that removed a user's entry from the
\* registry went on to a remote approve or decline call for that user.
C15_RemovedOnlyForExecutor ==
    \A u \in Users : reg[u].dropped = 0 /\ reg[u].mut = reg[u].taken

\* ---------------------------------------------------------------- SpecLive
\* C16 (as claimed): every bulk run that has started ends with its final
\* count, whatever the approve endpoint answers.
C16_RunTerminates == (run.pc = "fetch") ~> (run.pc = "done" /\ hist.reported >= 0)

\* -------------------------------------------------------------------- Spec
\* safe_approve calls started in the current batch (each user's count stops at 2).
BatchStarts ==
    Cardinality({u \in Users : hist.starts[u] >= 1})
    + Cardinality({u \in Users : hist.starts[u] >= 2})

\* Jobs of the current batch that a worker holds or that are still queued.
HeldBy(u) == {w \in Workers : wk[w].pc \in {"lsleep", "call", "sleep"} /\ wk[w].user = u}
Queued(u) == Cardinality({i \in 1..Len(queue) : queue[i] = u})

\* C17: in a batch, safe_approve is started at most once per enqueued user
\* and for no other user; a job is queued, or held by exactly one worker, or
\* finished, never two of these; and once the queue has been joined the
\* batch has made exactly as many safe_approve calls as jobs were enqueued,
\* one for each.
C17_EachJobOnce ==
    /\ \A u \in Users :
          /\ hist.starts[u] <= 1
          /\ hist.starts[u] = 1 => u \in hist.page
          /\ Cardinality(HeldBy(u)) + Queued(u) <= 1
          /\ (Queued(u) = 1 \/ \E w \in HeldBy(u) : wk[w].pc = "lsleep") => hist.starts[u] = 0
    /\ (run.pc \in {"gather", "fetch", "done"} /\ hist.batches > 0) =>
          /\ \A u \in hist.page : hist.starts[u] = 1
          /\ BatchStarts = Cardinality(hist.page)

\* A batch of two jobs has been joined; two workers shared it.
C17_Witness ==
    /\ run.pc = "gather"
    /\ Cardinality(hist.page) = BULK_CONCURRENCY
    /\ BatchStarts = BULK_CONCURRENCY
    /\ hist.oks = BULK_CONCURRENCY

\* C18: the successes counted so far by a run (approved_total plus the
\* current batch's counter) equal the safe_approve calls of the run that
\* returned true, at every moment and under every interleaving of the
\* workers; so does the final count the run reports.
C18_CountIsSuccesses ==
    /\ run.pc # "idle" =>
          run.approved_total + (IF run.pc \in {"join", "gather"} THEN counter ELSE 0) = hist.oks
    /\ hist.reported >= 0 => hist.reported = hist.oks

\* A run of two batches with a failed approval has reported its count.
C18_Witness ==
    /\ run.pc = "done" /\ reply = "finished"
    /\ hist.reported = NUsers
    /\ hist.batches >= 2
    /\ hist.fails >= 1

\* ------------------------------------------------------------- SpecButtons
\* C19 (as claimed): an admin's approve callback for a chat and user whose
\* join request was recorded, with no callback for them handled since, starts
\* a remote approve call for that chat and user.
C19_OpenRequestApproved ==
    asked # NoOne => btn.pc = "call" /\ btn.chat = asked.chat /\ btn.user = asked.user

\* ---------------------------------------------------------------- SpecExec
\* C20 (as claimed): safe_approve gives up on a network failure or timeout
\* only when more than NetworkMax network failures or timeouts were caught,
\* however many transient overloads the call went through.
C20_NetworkBoundIndependent ==
    (ex.pc = "done" /\ ex.last = "network") => ex.nNet > NetworkMax

====
